---------------------------- MODULE Spec2Model ----------------------------
(***************************************************************************)
(* Model of importlinter/contracts/layers.py: LayersContract.check and the *)
(* methods it calls.                                                       *)
(*                                                                         *)
(* A module name is a sequence of its dot-separated components, so         *)
(* "low.a" is <<"low", "a">>.  An import graph is a record: its modules,   *)
(* its imports (pairs <<importer, imported>>) and, for every import, the   *)
(* line numbers of its import details in the order they were recorded.     *)
(***************************************************************************)
EXTENDS Integers, Sequences, FiniteSets, TLC

VARIABLES
    self,             \* the contract: layers, containers, ignore_imports,
                      \* unmatched_ignore_imports_alerting, session root_packages
    heap,             \* the graph objects, by reference
    pc,               \* where check() stands
    error,            \* the exception check() raised, or NoError
    frame,            \* _generate_module_permutations: the suspended loops
    pair,             \* the triple the generator last yielded
    layer_chain_data, \* _build_layer_chain_data: the pair's data
    segments,         \* _find_segments: the segments found so far
    is_kept,          \* check(): is_kept
    invalid_chains,   \* check(): invalid_chains
    yielded,          \* every triple the generator yielded, in order
    run,              \* "first", or "second" when check() is called again
    previous,         \* the ContractCheck of the first call
    warnings          \* check(): warnings

vars == <<self, heap, pc, error, frame, pair, layer_chain_data, segments,
          is_kept, invalid_chains, yielded, run, previous, warnings>>

---------------------------------------------------------------------------
(* Python values *)

\* None, and the empty string: both are falsy where the code tests a container.
None == <<>>

\* The components used in module names, in the order Python compares strings.
Alphabet == <<"a", "high", "low", "m1", "m2", "mid", "other", "pkg", "sub", "x", "zzz">>

CompRank(c) == CHOOSE i \in 1..Len(Alphabet) : Alphabet[i] = c

\* a < b for two dotted names as Python strings: "." sorts below every
\* character of an identifier, so the names compare component by component
\* and a package sorts before its descendants.
RECURSIVE StrLess(_, _)
StrLess(a, b) ==
    IF b = <<>> THEN FALSE
    ELSE IF a = <<>> THEN TRUE
    ELSE IF Head(a) = Head(b) THEN StrLess(Tail(a), Tail(b))
    ELSE CompRank(Head(a)) < CompRank(Head(b))

\* sorted(S) for a set of module names.
RECURSIVE sorted(_)
sorted(S) ==
    IF S = {} THEN <<>>
    ELSE LET m == CHOOSE x \in S : \A y \in S \ {x} : StrLess(x, y)
         IN  <<m>> \o sorted(S \ {m})

Min(S) == CHOOSE x \in S : \A y \in S : x <= y

Range(s) == {s[i] : i \in 1..Len(s)}

\* CPython's set object (Objects/setobject.c), which tuple(set(...)) builds
\* and iterates.  A set is its table: so.mask is the table's size less one,
\* so.table maps the slots in use to their keys.  The keys are line
\* numbers, non-negative ints, each its own hash.
PySet_MINSIZE == 8
LINEAR_PROBES == 9
PERTURB_SHIFT == 5

NewSet == [mask |-> PySet_MINSIZE - 1, table |-> <<>>]

\* The slot a key is found in, or the unused slot it goes to: from slot i
\* the next LINEAR_PROBES slots are tried if the table has them, then the
\* slot (i * 5 + 1 + perturb) & mask with perturb shifted right.
RECURSIVE set_lookkey(_, _, _, _)
set_lookkey(so, key, i, perturb) ==
    LET probes == IF i + LINEAR_PROBES <= so.mask THEN LINEAR_PROBES ELSE 0
        hit == {j \in i..(i + probes) : j \notin DOMAIN so.table \/ so.table[j] = key}
        shifted == perturb \div (2 ^ PERTURB_SHIFT)
    IN  IF hit # {} THEN Min(hit)
        ELSE set_lookkey(so, key, (i * 5 + 1 + shifted) % (so.mask + 1), shifted)

\* set_insert_clean: a key known to be absent is put in its unused slot.
set_insert_clean(so, key) ==
    [so EXCEPT !.table = @ @@ (set_lookkey(so, key, key % (so.mask + 1), key) :> key)]

\* The keys of the slots j..mask of old are inserted in new, in slot order.
RECURSIVE set_reinsert(_, _, _)
set_reinsert(new, old, j) ==
    IF j > old.mask THEN new
    ELSE IF j \in DOMAIN old.table
         THEN set_reinsert(set_insert_clean(new, old.table[j]), old, j + 1)
         ELSE set_reinsert(new, old, j + 1)

RECURSIVE set_newsize(_, _)
set_newsize(newsize, minused) ==
    IF newsize <= minused THEN set_newsize(newsize * 2, minused) ELSE newsize

\* set_table_resize: a table of the first power of two above minused.
set_table_resize(so, minused) ==
    set_reinsert([mask |-> set_newsize(PySet_MINSIZE, minused) - 1, table |-> <<>>], so, 0)

\* set_add_entry: a key already there changes nothing; a new key takes its
\* slot, and the table grows once three fifths of it are in use: to hold
\* four times the keys in use, or twice as many when they are more than
\* 50000.  No key is ever deleted, so the slots filled are the keys in use.
\* (CPython 3.7 and later; 3.6 grows at two thirds.)
set_add_entry(so, key) ==
    LET j == set_lookkey(so, key, key % (so.mask + 1), key)
    IN  IF j \in DOMAIN so.table THEN so
        ELSE LET added == [so EXCEPT !.table = @ @@ (j :> key)]
                 fill == Cardinality(DOMAIN added.table)
                 used == fill
             IN  IF fill * 5 < so.mask * 3 THEN added
                 ELSE set_table_resize(added, IF used > 50000 THEN used * 2 ELSE used * 4)

\* set(lines): the keys are added in the order of the sequence.
RECURSIVE set_update(_, _)
set_update(so, lines) ==
    IF lines = <<>> THEN so
    ELSE set_update(set_add_entry(so, Head(lines)), Tail(lines))

\* Iterating a set: the keys of the slots in use, in slot order.
RECURSIVE set_iter(_, _)
set_iter(so, j) ==
    IF j > so.mask THEN <<>>
    ELSE IF j \in DOMAIN so.table
         THEN <<so.table[j]>> \o set_iter(so, j + 1)
         ELSE set_iter(so, j + 1)

\* tuple(set(line_numbers)): duplicates go, and the order is that of the
\* set's table, not that of the numbers.
tuple_set(lines) == set_iter(set_update(NewSet, lines), 0)

\* Every order in which iterating a set may produce its elements.
RECURSIVE IterationOrders(_)
IterationOrders(S) ==
    IF S = {} THEN {<<>>}
    ELSE UNION {{<<x>> \o s : s \in IterationOrders(S \ {x})} : x \in S}

---------------------------------------------------------------------------
(* importlinter.domain.imports.Module *)

\* Module(m).is_descendant_of(Module(p)): m's name starts with p's name and a dot.
is_descendant_of(m, p) ==
    Len(p) < Len(m) /\ SubSeq(m, 1, Len(p)) = p

\* Module(m).is_in_package(Module(p))
is_in_package(m, p) == m = p \/ is_descendant_of(m, p)

---------------------------------------------------------------------------
(* The import graph (importlinter.domain.ports.graph.ImportGraph) *)

EmptyGraph == [modules |-> {}, imports |-> {}, details |-> <<>>]

find_descendants(g, m) == {x \in g.modules : is_descendant_of(x, m)}

find_modules_directly_imported_by(g, m) ==
    {e[2] : e \in {d \in g.imports : d[1] = m}}

find_modules_that_directly_import(g, m) ==
    {e[1] : e \in {d \in g.imports : d[2] = m}}

\* The line numbers of the import details, in order; empty if none recorded.
get_import_details(g, importer, imported) ==
    IF <<importer, imported>> \in g.imports
    THEN g.details[<<importer, imported>>]
    ELSE <<>>

RestrictTo(g, imps) ==
    [modules |-> g.modules,
     imports |-> imps,
     details |-> [e \in imps |-> g.details[e]]]

\* remove_import, for every import of a set.
remove_imports(g, gone) == RestrictTo(g, g.imports \ gone)

\* remove_module, for every module of a set: the modules go, and with them
\* the imports of and by them.
remove_modules(g, gone) ==
    [RestrictTo(g, {e \in g.imports : e[1] \notin gone /\ e[2] \notin gone})
        EXCEPT !.modules = g.modules \ gone]

\* squash_module: the module takes over every import of and by its
\* descendants (added without details), and the descendants are removed.
squash_module(g, m) ==
    LET desc  == find_descendants(g, m)
        out   == {<<m, e[2]>> : e \in {d \in g.imports : d[1] \in desc /\ d[2] \notin desc \cup {m}}}
        inn   == {<<e[1], m>> : e \in {d \in g.imports : d[2] \in desc /\ d[1] \notin desc \cup {m}}}
        kept  == {e \in g.imports : e[1] \notin desc /\ e[2] \notin desc}
        all   == kept \cup out \cup inn
    IN  [modules |-> g.modules \ desc,
         imports |-> all,
         details |-> [e \in all |-> IF e \in kept THEN g.details[e] ELSE <<>>]]

\* The chains of n imports that start at module a and repeat no module.
RECURSIVE ChainsFrom(_, _, _)
ChainsFrom(g, a, n) ==
    IF n = 0 THEN {<<a>>}
    ELSE UNION {{Append(c, x) :
                    x \in find_modules_directly_imported_by(g, c[Len(c)]) \ Range(c)}
                : c \in ChainsFrom(g, a, n - 1)}

ChainsBetween(g, a, b, n) == {c \in ChainsFrom(g, a, n) : c[Len(c)] = b}

\* find_shortest_chain may return any of the shortest chains; {} stands for None.
find_shortest_chain(g, importer, imported) ==
    LET lens == {n \in 1..Cardinality(g.modules) : ChainsBetween(g, importer, imported, n) # {}}
    IN  IF lens = {} THEN {} ELSE ChainsBetween(g, importer, imported, Min(lens))

---------------------------------------------------------------------------
(* LayersContract: validation *)

NoError == [exception |-> "none", text |-> "", container |-> None,
            module |-> None, root_packages |-> <<>>]

\* The ValueError raised at layers.py line 153; the wording depends on
\* whether there is one root package or several, and names them.
InvalidContainerError(container) ==
    [exception |-> "ValueError",
     text |-> IF Len(self.root_packages) = 1
              THEN "Invalid container: must be a subpackage of the root package, or the root package itself"
              ELSE "Invalid container: must be a root package, or a subpackage of one of them",
     container |-> container,
     module |-> None,
     root_packages |-> self.root_packages]

MissingLayerInContainerError(container, layer_module_name) ==
    [exception |-> "ValueError",
     text |-> "Missing layer in container: module does not exist",
     container |-> container,
     module |-> layer_module_name,
     root_packages |-> <<>>]

MissingLayerError(layer_name) ==
    [exception |-> "ValueError",
     text |-> "Missing layer: module does not exist",
     container |-> None,
     module |-> layer_name,
     root_packages |-> <<>>]

DirectChainError ==
    [exception |-> "ValueError",
     text |-> "Direct chain found - these should have been removed.",
     container |-> None, module |-> None, root_packages |-> <<>>]

IndexError ==
    [exception |-> "IndexError", text |-> "list index out of range",
     container |-> None, module |-> None, root_packages |-> <<>>]

\* The error of contract_utils.remove_ignored_imports for an ignored import
\* the graph does not have, when the alerting is "error".
MissingImport ==
    [exception |-> "MissingImport", text |-> "No matches for ignored import",
     container |-> None, module |-> None, root_packages |-> <<>>]

\* The ignored imports the graph does not have.
unresolved_expressions(g, ignore_imports) == ignore_imports \ g.imports

\* contract_utils.remove_ignored_imports: what it returns, one warning for
\* every ignored import the graph does not have when the alerting is "warn".
ignored_imports_warnings(g, ignore_imports, unmatched_alerting) ==
    IF unmatched_alerting = "warn"
    THEN unresolved_expressions(g, ignore_imports)
    ELSE {}

\* Lines 158-159 and 169-170: an optional layer is skipped.
IsRequired(layer) == ~layer.is_optional

_check_all_layers_exist_for_container(container, g) ==
    LET missing == {i \in 1..Len(self.layers) :
                        /\ IsRequired(self.layers[i])
                        /\ (container \o self.layers[i].name) \notin g.modules}
    IN  IF missing = {} THEN NoError
        ELSE MissingLayerInContainerError(
                 container, container \o self.layers[Min(missing)].name)

_check_all_containerless_layers_exist(g) ==
    LET missing == {i \in 1..Len(self.layers) :
                        /\ IsRequired(self.layers[i])
                        /\ self.layers[i].name \notin g.modules}
    IN  IF missing = {} THEN NoError
        ELSE MissingLayerError(self.layers[Min(missing)].name)

\* any(Module(container).is_in_package(root_package) for root_package in root_packages)
ContainerIsValid(container) ==
    \E k \in 1..Len(self.root_packages) :
        is_in_package(container, self.root_packages[k])

\* The loop of _validate_containers from the k-th container on: the error it
\* raises, or NoError when it runs to its end.
RECURSIVE validate_containers_from(_, _)
validate_containers_from(k, g) ==
    IF k > Len(self.containers) THEN NoError
    ELSE LET container == self.containers[k]
         IN  IF ~ContainerIsValid(container)
             THEN InvalidContainerError(container)
             ELSE LET e == _check_all_layers_exist_for_container(container, g)
                  IN  IF e # NoError THEN e
                      ELSE validate_containers_from(k + 1, g)

_validate_containers(g) == validate_containers_from(1, g)

---------------------------------------------------------------------------
(* LayersContract: the pairs of layers *)

_module_from_layer(layer, container) ==
    IF container # None THEN container \o layer.name ELSE layer.name

\* self.containers or [None]
quasi_containers ==
    IF self.containers # <<>> THEN self.containers ELSE <<None>>

Exhausted == [container |-> 0, index |-> 0, lower |-> 0]

\* Not the code: the inner loop starts at the higher layer itself,
\* self.layers[index:].
LowerStartsAtIndex(index) == index

\* The first lower layer the inner loop pairs with the layer at index:
\* self.layers[index + 1:].
LowerStart(index) == index + 1

\* _generate_module_permutations resumed with its loops at the k-th
\* container, the higher layer at index and the lower layer at lower: the
\* position of its next yield, or Exhausted.
RECURSIVE next_yield(_, _, _, _)
next_yield(g, k, index, lower) ==
    IF k > Len(quasi_containers) THEN Exhausted
    ELSE IF index > Len(self.layers) THEN next_yield(g, k + 1, 1, LowerStart(1))
    ELSE IF _module_from_layer(self.layers[index], quasi_containers[k]) \notin g.modules
         THEN next_yield(g, k, index + 1, LowerStart(index + 1))
    ELSE IF lower > Len(self.layers)
         THEN next_yield(g, k, index + 1, LowerStart(index + 1))
    ELSE IF _module_from_layer(self.layers[lower], quasi_containers[k]) \notin g.modules
         THEN next_yield(g, k, index, lower + 1)
    ELSE [container |-> k, index |-> index, lower |-> lower]

\* The triple yielded at a position.
Triple(pos) ==
    [higher |-> _module_from_layer(self.layers[pos.index], quasi_containers[pos.container]),
     lower  |-> _module_from_layer(self.layers[pos.lower], quasi_containers[pos.container]),
     container |-> quasi_containers[pos.container]]

NoPair == [higher |-> None, lower |-> None, container |-> None]

---------------------------------------------------------------------------
(* LayersContract: the chains between two layers *)

\* The graph objects: the one check() is given, the copy made at line 229
\* and the copy made at line 296.
GraphRef == "graph"

\* Not the code: no copy is made, and the same object is used.
same_object(src, fresh) == src

\* copy.deepcopy(graph): a new object, written at ref `fresh`.
deepcopy(src, fresh) == fresh

temp_graph == deepcopy(GraphRef, "temp_graph")

squashed_graph == deepcopy(temp_graph, "squashed_graph")

\* The heap after `ref = copy.deepcopy(src)`.
Copied(h, src, ref) == [h EXCEPT ![ref] = h[src]]

Link(importer, imported, line_numbers) ==
    [importer |-> importer, imported |-> imported, line_numbers |-> line_numbers]

DetailedChain(chain, extra_firsts, extra_lasts) ==
    [chain |-> chain, extra_firsts |-> extra_firsts, extra_lasts |-> extra_lasts]

NoData == [higher_layer |-> None, lower_layer |-> None, chains |-> <<>>]

\* The line number of the import details made up at lines 431-438: "?".
UnknownLine == 0

\* _remove_layer: the layer's descendants are removed, then the layer.
_remove_layer(g, layer_package) ==
    remove_modules(remove_modules(g, find_descendants(g, layer_package)), {layer_package})

\* The loop of _remove_other_layers from the k-th layer on.
RECURSIVE remove_other_layers_from(_, _, _, _)
remove_other_layers_from(k, g, container, layers_to_preserve) ==
    IF k > Len(self.layers) THEN g
    ELSE LET candidate_layer == _module_from_layer(self.layers[k], container)
         IN  remove_other_layers_from(
                 k + 1,
                 IF candidate_layer \in g.modules /\ candidate_layer \notin layers_to_preserve
                 THEN _remove_layer(g, candidate_layer)
                 ELSE g,
                 container, layers_to_preserve)

\* Not the code: no layer is recognised as one to preserve.
remove_every_layer(g, container, layers_to_preserve) ==
    remove_other_layers_from(1, g, container, {})

_remove_other_layers(g, container, layers_to_preserve) ==
    remove_other_layers_from(1, g, container, layers_to_preserve)

\* Not the code: only the imports by the lower layer's own module are popped,
\* those by its descendants are left in the graph.
DirectImportsOfThePackage(g, higher_layer_package, lower_layer_package) ==
    {e \in g.imports :
        /\ e[1] = lower_layer_package
        /\ \/ e[2] = higher_layer_package
           \/ is_descendant_of(e[2], higher_layer_package)}

\* The imports _pop_direct_imports pops: by the lower layer or a descendant
\* of it, of the higher layer or a descendant of it.
DirectImports(g, higher_layer_package, lower_layer_package) ==
    LET lower_layer_modules ==
            {lower_layer_package} \cup find_descendants(g, lower_layer_package)
    IN  {e \in g.imports :
            /\ e[1] \in lower_layer_modules
            /\ \/ e[2] = higher_layer_package
               \/ is_descendant_of(e[2], higher_layer_package)}

\* The orders in which the two nested loops over sets (lines 418 and 420)
\* may reach the direct imports: those of one importer come together.
PopOrders(imps) ==
    {s \in IterationOrders(imps) :
        \A i, j, k \in 1..Len(s) :
            (i < j /\ j < k /\ s[i][1] = s[k][1]) => s[j][1] = s[i][1]}

\* The details of one popped import: those recorded, or the made-up one.
PoppedDetails(g, e) ==
    IF get_import_details(g, e[1], e[2]) # <<>>
    THEN get_import_details(g, e[1], e[2])
    ELSE <<UnknownLine>>

\* Not the code: the link's importer and imported are exchanged.
DirectChainReversed(g, e) ==
    DetailedChain(<<Link(e[2], e[1], PoppedDetails(g, e))>>, <<>>, <<>>)

\* Lines 241-256: one chain of one link for every popped import.
DirectChain(g, e) ==
    DetailedChain(<<Link(e[1], e[2], PoppedDetails(g, e))>>, <<>>, <<>>)

\* Lines 324-339: the links of a chain, looked up in the reference graph.
Segment(reference_graph, chain) ==
    [i \in 1..(Len(chain) - 1) |->
        Link(chain[i], chain[i + 1],
             tuple_set(get_import_details(reference_graph, chain[i], chain[i + 1])))]

InLayer(m, layer_package) == m = layer_package \/ is_descendant_of(m, layer_package)

\* Not the code: the importer layer's own module is not a candidate, only
\* its descendants are.
HeadImportsByDescendants(g, segment, importer) ==
    LET imported_module == segment[1].imported
        candidate_modules == sorted(find_modules_that_directly_import(g, imported_module))
        ms == SelectSeq(candidate_modules, LAMBDA m : is_descendant_of(m, importer))
    IN  [i \in 1..Len(ms) |->
            Link(ms[i], imported_module,
                 tuple_set(get_import_details(g, ms[i], imported_module)))]

\* Lines 359-373: the imports of the segment's first middle module by the
\* importer layer, sorted by importer.
HeadImports(g, segment, importer) ==
    LET imported_module == segment[1].imported
        candidate_modules == sorted(find_modules_that_directly_import(g, imported_module))
        ms == SelectSeq(candidate_modules, LAMBDA m : InLayer(m, importer))
    IN  [i \in 1..Len(ms) |->
            Link(ms[i], imported_module,
                 tuple_set(get_import_details(g, ms[i], imported_module)))]

\* Lines 375-389: the imports by the segment's last middle module of the
\* imported layer, sorted by imported.
TailImports(g, segment, imported) ==
    LET importer_module == segment[Len(segment)].importer
        candidate_modules == sorted(find_modules_directly_imported_by(g, importer_module))
        ms == SelectSeq(candidate_modules, LAMBDA m : InLayer(m, imported))
    IN  [i \in 1..Len(ms) |->
            Link(importer_module, ms[i],
                 tuple_set(get_import_details(g, importer_module, ms[i])))]

\* Not the code: the segment's first link is kept, segment[:-1].
CollapsedChainKeepingFirstLink(g, segment, importer, imported) ==
    LET head_imports == HeadImports(g, segment, importer)
        tail_imports == TailImports(g, segment, imported)
    IN  DetailedChain(
            <<head_imports[1]>> \o SubSeq(segment, 1, Len(segment) - 1) \o <<tail_imports[1]>>,
            Tail(head_imports),
            Tail(tail_imports))

\* Lines 391-397: the collapsed chain of one segment.
CollapsedChain(g, segment, importer, imported) ==
    LET head_imports == HeadImports(g, segment, importer)
        tail_imports == TailImports(g, segment, imported)
    IN  DetailedChain(
            <<head_imports[1]>> \o SubSeq(segment, 2, Len(segment) - 1) \o <<tail_imports[1]>>,
            Tail(head_imports),
            Tail(tail_imports))

\* Whether head_imports[0] or tail_imports[0] is an IndexError for a segment.
HasNoEnds(g, segment, importer, imported) ==
    \/ HeadImports(g, segment, importer) = <<>>
    \/ TailImports(g, segment, imported) = <<>>

_segments_to_collapsed_chains(g, segs, importer, imported) ==
    [i \in 1..Len(segs) |-> CollapsedChain(g, segs[i], importer, imported)]

---------------------------------------------------------------------------
(* The contracts and graphs check() is run on *)

\* The most imports a graph of InitLayers has.
MaxImports == 4

Layer(name, is_optional) == [name |-> name, is_optional |-> is_optional]

high  == <<"high">>
mid   == <<"mid">>
low   == <<"low">>

\* Two layered packages with a submodule each, an optional layer between
\* them, and two modules outside the layers.
LayersModules ==
    {high, <<"high", "x">>, mid, low, <<"low", "a">>, <<"m1">>, <<"m2">>}

\* The imports of these graphs: by the lower layer of the higher, from the
\* lower layer out, into the higher layer, between the outside modules,
\* through the middle layer, inside a layer, and downwards.
LayersImports ==
    ({low, <<"low", "a">>} \X {high, <<"high", "x">>, <<"m1">>, <<"m2">>})
    \cup ({<<"m1">>, <<"m2">>} \X {high, <<"high", "x">>})
    \cup {<<<<"m1">>, <<"m2">>>>, <<<<"m2">>, <<"m1">>>>}
    \cup {<<low, mid>>, <<mid, high>>, <<mid, <<"m1">>>>, <<<<"m1">>, mid>>}
    \cup {<<<<"low", "a">>, low>>, <<high, low>>}

\* The line numbers recorded for an import: none, one, several with a
\* repeat, or two that a set does not iterate in ascending order.
LineChoices == {<<>>, <<3>>, <<5, 3, 5>>, <<10, 3>>}

\* unmatched_ignore_imports_alerting: AlertLevel, "error" by default (line 72).
AlertLevels == {"none", "warn", "error"}

\* The most imports of a graph of InitLayers whose line numbers or whose
\* contract's ignored imports vary.
MaxVariedImports == 2

Contract(layers, containers, root_packages, ignore_imports, alerting) ==
    [layers |-> layers,
     containers |-> containers,
     root_packages |-> root_packages,
     ignore_imports |-> ignore_imports,
     unmatched_ignore_imports_alerting |-> alerting]

Graph(modules, imports, lines) ==
    [modules |-> modules, imports |-> imports, details |-> [e \in imports |-> lines]]

NewHeap(g) ==
    [ref \in {GraphRef, "temp_graph", "squashed_graph"} |->
        IF ref = GraphRef THEN g ELSE EmptyGraph]

\* check() has not started.
Start ==
    /\ pc = "ignore"
    /\ warnings = {}
    /\ error = NoError
    /\ frame = [container |-> 1, index |-> 1, lower |-> LowerStart(1)]
    /\ pair = NoPair
    /\ layer_chain_data = NoData
    /\ segments = <<>>
    /\ is_kept = TRUE
    /\ invalid_chains = <<>>
    /\ yielded = <<>>

\* Layers high, (mid), low without containers, over every graph of at most
\* MaxImports of the imports above; for the graphs of at most
\* MaxVariedImports imports the line numbers vary, or the contract ignores
\* an import the graph may or may not have.
InitLayers ==
    \E imports \in SUBSET LayersImports, lines \in LineChoices, alerting \in AlertLevels,
       ignore_imports \in {{}, {<<low, high>>}, {<<low, <<"m1">>>>}} :
       /\ Cardinality(imports) <= MaxImports
       /\ Cardinality(imports) > MaxVariedImports => (lines = <<3>> /\ ignore_imports = {})
       /\ ignore_imports = {} => alerting = "error"
       /\ ignore_imports # {} => lines = <<3>>
       /\ self = Contract(<<Layer(high, FALSE), Layer(mid, TRUE), Layer(low, FALSE)>>,
                          <<>>, <<high, low, <<"m1">>, <<"m2">>, mid>>,
                          ignore_imports, alerting)
       /\ heap = NewHeap(Graph(LayersModules, imports, lines))

ContainerLists ==
    {<<>>, <<<<"pkg">>>>, <<<<"pkg", "sub">>>>, <<<<"zzz">>>>,
     <<<<"pkg">>, <<"pkg", "sub">>>>, <<<<"pkg">>, <<"zzz">>>>, <<<<"zzz">>, <<"pkg">>>>}

RootPackageLists == {<<<<"pkg">>>>, <<<<"other">>, <<"pkg">>>>}

\* Contracts with and without containers, with the middle layer optional
\* or required, ignoring or not the import of the higher layer by the lower
\* one in the first container, over graphs in which any of the layers'
\* modules may be missing and the lower layers may import the higher ones.
InitContainers ==
    \E containers \in ContainerLists, roots \in RootPackageLists,
       optional \in BOOLEAN, lines \in LineChoices, alerting \in AlertLevels :
       LET quasi   == IF containers # <<>> THEN containers ELSE <<None>>
           layered == {quasi[k] \o l : k \in 1..Len(quasi), l \in {high, mid, low}}
       IN  \E present \in SUBSET layered,
              ignore_imports \in {{}, {<<quasi[1] \o low, quasi[1] \o high>>}} :
              LET modules == present \cup {<<"pkg">>, <<"pkg", "sub">>, <<"other">>}
                  candidates == {e \in present \X present :
                                    \E k \in 1..Len(quasi) :
                                       /\ e[1] = quasi[k] \o low
                                       /\ e[2] \in {quasi[k] \o high, quasi[k] \o mid}}
              IN  \E imports \in SUBSET candidates :
                     /\ (imports = {} \/ ignore_imports # {}) => lines = <<3>>
                     /\ ignore_imports = {} => alerting = "error"
                     /\ self = Contract(<<Layer(high, FALSE), Layer(mid, optional),
                                          Layer(low, FALSE)>>,
                                        containers, roots, ignore_imports, alerting)
                     /\ heap = NewHeap(Graph(modules, imports, lines))

\* The imports of the graphs of InitCollapsing: two modules of the lower
\* layer import one outside module, which leads to the higher layer directly
\* or through the other outside module, which the lower layer may import too.
CollapsingImports ==
    {<<low, <<"m1">>>>, <<<<"low", "a">>, <<"m1">>>>, <<<<"m1">>, <<"m2">>>>,
     <<<<"m2">>, high>>, <<low, <<"m2">>>>, <<<<"m1">>, high>>,
     <<<<"m1">>, <<"high", "x">>>>, <<<<"m2">>, <<"high", "x">>>>}

\* Layers high, (mid), low without containers, over every graph of the
\* imports above, however many.
InitCollapsing ==
    \E imports \in SUBSET CollapsingImports :
       /\ self = Contract(<<Layer(high, FALSE), Layer(mid, TRUE), Layer(low, FALSE)>>,
                          <<>>, <<high, low, <<"m1">>, <<"m2">>, mid>>, {}, "error")
       /\ heap = NewHeap(Graph(LayersModules, imports, <<3>>))

Init ==
    /\ Start
    /\ run = "first"
    /\ previous = [kept |-> TRUE, warnings |-> {}, invalid_chains |-> <<>>]
    /\ (InitLayers \/ InitContainers \/ InitCollapsing)

---------------------------------------------------------------------------
(* check() *)

\* Lines 76-80: the ignored imports are removed from the graph check() was
\* given, from that graph itself and not from a copy of it, and the
\* warnings are kept for the result; an ignored import the graph lacks is
\* an error when the alerting is "error".
RemoveIgnoredImports ==
    /\ pc = "ignore"
    /\ IF /\ self.unmatched_ignore_imports_alerting = "error"
          /\ unresolved_expressions(heap[GraphRef], self.ignore_imports) # {}
       THEN /\ error' = MissingImport
            /\ pc' = "raised"
            /\ UNCHANGED <<heap, warnings>>
       ELSE /\ warnings' = ignored_imports_warnings(heap[GraphRef], self.ignore_imports,
                                                   self.unmatched_ignore_imports_alerting)
            /\ heap' = [heap EXCEPT ![GraphRef] =
                            remove_imports(@, self.ignore_imports \cap @.imports)]
            /\ pc' = "validate"
            /\ UNCHANGED error
    /\ UNCHANGED <<self, frame, pair, layer_chain_data, segments, is_kept,
                   invalid_chains, yielded, run, previous>>

\* Lines 82-85: the containers and layers are validated.
Validate ==
    /\ pc = "validate"
    /\ LET e == IF self.containers # <<>>
                THEN _validate_containers(heap[GraphRef])
                ELSE _check_all_containerless_layers_exist(heap[GraphRef])
       IN  /\ error' = e
           /\ pc' = IF e # NoError THEN "raised" ELSE "permute"
    /\ UNCHANGED <<self, heap, frame, pair, layer_chain_data, segments, is_kept,
                   invalid_chains, yielded, run, previous, warnings>>

\* Lines 87-91: the generator yields its next triple.
NextPermutation ==
    /\ pc = "permute"
    /\ LET pos == next_yield(heap[GraphRef], frame.container, frame.index, frame.lower)
       IN  /\ pos # Exhausted
           /\ pair' = Triple(pos)
           /\ yielded' = Append(yielded, Triple(pos))
           /\ frame' = [pos EXCEPT !.lower = pos.lower + 1]
    /\ pc' = "build"
    /\ UNCHANGED <<self, heap, error, layer_chain_data, segments, is_kept,
                   invalid_chains, run, previous, warnings>>

\* Lines 229-262: the graph is copied, the other layers are removed from
\* the copy and the direct imports are popped from it.
BuildDirectChains ==
    /\ pc = "build"
    /\ LET h == Copied(heap, GraphRef, temp_graph)
           g == _remove_other_layers(h[temp_graph], pair.container,
                                     {pair.higher, pair.lower})
           direct == DirectImports(g, pair.higher, pair.lower)
       IN  \E order \in PopOrders(direct) :
              /\ heap' = [h EXCEPT ![temp_graph] = remove_imports(g, direct)]
              /\ layer_chain_data' =
                    [higher_layer |-> pair.higher,
                     lower_layer |-> pair.lower,
                     chains |-> [i \in 1..Len(order) |-> DirectChain(g, order[i])]]
    /\ pc' = "squash"
    /\ UNCHANGED <<self, error, frame, pair, segments, is_kept, invalid_chains,
                   yielded, run, previous, warnings>>

\* Lines 296-299: the pruned graph is copied and both layers are squashed
\* in the copy.
SquashLayers ==
    /\ pc = "squash"
    /\ LET h == Copied(heap, temp_graph, squashed_graph)
       IN  heap' = [h EXCEPT ![squashed_graph] =
                       squash_module(squash_module(h[squashed_graph], pair.lower),
                                     pair.higher)]
    /\ segments' = <<>>
    /\ pc' = "segments"
    /\ UNCHANGED <<self, error, frame, pair, layer_chain_data, is_kept,
                   invalid_chains, yielded, run, previous, warnings>>

\* Not the code: only the chain's first import is removed.
FirstImportOnly(chain) == {<<chain[1], chain[2]>>}

\* Lines 349-350: the imports of a chain, all removed from the graph.
RemovedImports(chain) == {<<chain[i], chain[i + 1]>> : i \in 1..(Len(chain) - 1)}

\* Lines 319-339 and 345-351: a shortest chain is found and removed from the
\* squashed graph, and its segment is kept.
PopShortestChain ==
    /\ pc = "segments"
    /\ \E chain \in find_shortest_chain(heap[squashed_graph], pair.lower, pair.higher) :
          LET h == [heap EXCEPT ![squashed_graph] = remove_imports(@, RemovedImports(chain))]
          IN  /\ heap' = h
              /\ IF Len(chain) = 2
                 THEN /\ error' = DirectChainError
                      /\ pc' = "raised"
                      /\ UNCHANGED segments
                 ELSE /\ segments' = Append(segments, Segment(h[temp_graph], chain))
                      /\ UNCHANGED <<error, pc>>
    /\ UNCHANGED <<self, frame, pair, layer_chain_data, is_kept, invalid_chains,
                   yielded, run, previous, warnings>>

\* Lines 304-306, 264-269 and 105-107: no chain is left; the segments get
\* their heads and tails, and the pair's data is added to the report if it
\* has chains.
CollapseSegments ==
    /\ pc = "segments"
    /\ find_shortest_chain(heap[squashed_graph], pair.lower, pair.higher) = {}
    /\ IF \E i \in 1..Len(segments) :
             HasNoEnds(heap[temp_graph], segments[i], pair.lower, pair.higher)
       THEN /\ error' = IndexError
            /\ pc' = "raised"
            /\ UNCHANGED <<layer_chain_data, is_kept, invalid_chains>>
       ELSE LET data == [layer_chain_data EXCEPT !.chains =
                            @ \o _segments_to_collapsed_chains(
                                     heap[temp_graph], segments, pair.lower, pair.higher)]
            IN  /\ layer_chain_data' = data
                /\ is_kept' = IF data.chains # <<>> THEN FALSE ELSE is_kept
                /\ invalid_chains' = IF data.chains # <<>>
                                     THEN Append(invalid_chains, data)
                                     ELSE invalid_chains
                /\ pc' = "permute"
                /\ UNCHANGED error
    /\ UNCHANGED <<self, heap, frame, pair, segments, yielded, run, previous, warnings>>

\* ContractCheck(kept=is_kept, warnings=warnings,
\*               metadata={"invalid_chains": invalid_chains})
ContractCheck ==
    [kept |-> is_kept, warnings |-> warnings, invalid_chains |-> invalid_chains]

\* Lines 116-118: the generator is exhausted and check() returns.
Return ==
    /\ pc = "permute"
    /\ next_yield(heap[GraphRef], frame.container, frame.index, frame.lower) = Exhausted
    /\ pc' = "done"
    /\ UNCHANGED <<self, heap, error, frame, pair, layer_chain_data, segments,
                   is_kept, invalid_chains, yielded, run, previous, warnings>>

\* check() is called a second time with the same contract and graph.
CheckAgain ==
    /\ pc = "done"
    /\ run = "first"
    /\ run' = "second"
    /\ previous' = ContractCheck
    /\ pc' = "ignore"
    /\ warnings' = {}
    /\ error' = NoError
    /\ frame' = [container |-> 1, index |-> 1, lower |-> LowerStart(1)]
    /\ pair' = NoPair
    /\ layer_chain_data' = NoData
    /\ segments' = <<>>
    /\ is_kept' = TRUE
    /\ invalid_chains' = <<>>
    /\ yielded' = <<>>
    /\ UNCHANGED <<self, heap>>

Next ==
    \/ RemoveIgnoredImports
    \/ Validate
    \/ NextPermutation
    \/ BuildDirectChains
    \/ SquashLayers
    \/ PopShortestChain
    \/ CollapseSegments
    \/ Return

Spec == Init /\ [][Next]_vars

\* The same, with check() run twice.
SpecTwice == Init /\ [][Next \/ CheckAgain]_vars

---------------------------------------------------------------------------
(* What the claims speak of *)

\* The graph check() was given.
TheGraph == heap[GraphRef]

\* The pair the generator last yielded has been analysed: layer_chain_data
\* is the data built for it.
PairDone == pc \in {"permute", "done"} /\ pair # NoPair

Subtree(g, package) == {m \in g.modules : m = package \/ is_descendant_of(m, package)}

\* The modules a graph's imports lead to from the modules of S, S included.
RECURSIVE ReachableFrom(_, _)
ReachableFrom(g, S) ==
    LET more == S \cup {e[2] : e \in {d \in g.imports : d[1] \in S}}
    IN  IF more = S THEN S ELSE ReachableFrom(g, more)

\* The graph has a chain of imports from the subtree of one package to the
\* subtree of another.
HasPath(g, from, to) ==
    ReachableFrom(g, Subtree(g, from)) \cap Subtree(g, to) # {}

\* The modules of the declared layers, under the triple's container, that
\* are in the graph and are not one of the triple's two layers, with their
\* descendants.
OtherLayersModules(g, t) ==
    {m \in g.modules :
        \E k \in 1..Len(self.layers) :
            LET package == t.container \o self.layers[k].name
            IN  /\ package \in g.modules
                /\ package \notin {t.higher, t.lower}
                /\ (m = package \/ is_descendant_of(m, package))}

\* The graph without some modules and without some imports.
Without(g, modules, imports) ==
    LET kept == {e \in g.imports \ imports : e[1] \notin modules /\ e[2] \notin modules}
    IN  [modules |-> g.modules \ modules,
         imports |-> kept,
         details |-> [e \in kept |-> g.details[e]]]

\* The graph with only the triple's two layers left of the declared layers.
Pruned(g, t) == Without(g, OtherLayersModules(g, t), {})

\* The imports a detailed chain reports, as pairs.
LinkImports(links) == {<<links[i].importer, links[i].imported>> : i \in 1..Len(links)}

ReportedImports(dc) ==
    LinkImports(dc.chain) \cup LinkImports(dc.extra_firsts) \cup LinkImports(dc.extra_lasts)

Chains == layer_chain_data.chains

\* The imports along a chain of modules.
ChainImports(c) == {<<c[i], c[i + 1]>> : i \in 1..(Len(c) - 1)}

---------------------------------------------------------------------------
(* C1 *)

\* C1, as stated: once a pair (H, L) is analysed, if the graph has any chain
\* of imports from L's subtree to H's subtree, through any modules, the
\* pair's data has chains and the contract is not kept.
C1_AnyPathIsReported ==
    (PairDone /\ HasPath(TheGraph, pair.lower, pair.higher))
        => (Chains # <<>> /\ ~is_kept)

\* C1, amended: once a pair (H, L) is analysed, if the graph has a chain of
\* imports from L's subtree to H's subtree that passes through no module of
\* another declared layer (under the same container), the pair's data has
\* chains and the contract is not kept; and when check() returns, it returns
\* kept = false if any chain of imports at all leads from the lower to the
\* higher layer of some yielded pair.
C1_PathOutsideOtherLayersIsReported ==
    /\ (PairDone /\ HasPath(Pruned(TheGraph, pair), pair.lower, pair.higher))
          => (Chains # <<>> /\ ~is_kept)
    /\ (pc = "done" /\ \E i \in 1..Len(yielded) :
                          HasPath(TheGraph, yielded[i].lower, yielded[i].higher))
          => ~is_kept

\* A pair with no direct import but a chain of imports through a module
\* outside the layers has been analysed, and check() has returned.
C1_Witness ==
    /\ pc = "done"
    /\ pair # NoPair
    /\ DirectImports(TheGraph, pair.higher, pair.lower) = {}
    /\ HasPath(Pruned(TheGraph, pair), pair.lower, pair.higher)

---------------------------------------------------------------------------
(* C2 *)

IsContiguous(links) ==
    \A i \in 1..(Len(links) - 1) : links[i].imported = links[i + 1].importer

\* C2: once a pair (H, L) is analysed, every chain of its data starts in
\* L's subtree, ends in H's subtree, is contiguous and reports only imports
\* of the graph check() was given, its extra firsts being imports by L's
\* subtree of the chain's first imported module and its extra lasts imports
\* of H's subtree by the chain's last importer; so a pair without a chain
\* of imports from L's subtree to H's subtree has no chains, and check()
\* returns kept = true when that is so of every pair it analysed.
C2_ChainsArePathsOfTheGraph ==
    /\ PairDone =>
          \A n \in 1..Len(Chains) :
             LET dc == Chains[n]
             IN  /\ Len(dc.chain) >= 1
                 /\ dc.chain[1].importer \in Subtree(TheGraph, pair.lower)
                 /\ dc.chain[Len(dc.chain)].imported \in Subtree(TheGraph, pair.higher)
                 /\ IsContiguous(dc.chain)
                 /\ ReportedImports(dc) \subseteq TheGraph.imports
                 /\ \A i \in 1..Len(dc.extra_firsts) :
                       /\ dc.extra_firsts[i].importer \in Subtree(TheGraph, pair.lower)
                       /\ dc.extra_firsts[i].imported = dc.chain[1].imported
                 /\ \A i \in 1..Len(dc.extra_lasts) :
                       /\ dc.extra_lasts[i].imported \in Subtree(TheGraph, pair.higher)
                       /\ dc.extra_lasts[i].importer = dc.chain[Len(dc.chain)].importer
    /\ (PairDone /\ ~HasPath(TheGraph, pair.lower, pair.higher)) => Chains = <<>>
    /\ (pc = "done" /\ \A i \in 1..Len(yielded) :
                          ~HasPath(TheGraph, yielded[i].lower, yielded[i].higher))
          => (is_kept /\ invalid_chains = <<>>)

\* A pair has a chain of three links or more with an extra first.
C2_Witness ==
    /\ PairDone
    /\ \E n \in 1..Len(Chains) :
          Len(Chains[n].chain) >= 3 /\ Chains[n].extra_firsts # <<>>

---------------------------------------------------------------------------
(* C3 *)

\* The imports by a module of the lower layer's subtree of a module of the
\* higher layer's subtree.
LayerToLayerImports(g, t) ==
    {e \in g.imports : e[1] \in Subtree(g, t.lower) /\ e[2] \in Subtree(g, t.higher)}

ChainsReporting(e) == {n \in 1..Len(Chains) : e \in ReportedImports(Chains[n])}

\* C3: once a pair (H, L) is analysed, every import by a module of L's
\* subtree of a module of H's subtree is reported by exactly one chain of
\* the pair's data, and that chain is that one link, with no extra firsts
\* and no extra lasts.
C3_DirectImportsReportedOnce ==
    PairDone =>
        \A e \in LayerToLayerImports(TheGraph, pair) :
            /\ Cardinality(ChainsReporting(e)) = 1
            /\ \A n \in ChainsReporting(e) :
                  /\ Len(Chains[n].chain) = 1
                  /\ Chains[n].chain[1].importer = e[1]
                  /\ Chains[n].chain[1].imported = e[2]
                  /\ Chains[n].extra_firsts = <<>>
                  /\ Chains[n].extra_lasts = <<>>

\* A pair with two direct imports and an indirect chain has been analysed.
C3_Witness ==
    /\ PairDone
    /\ Cardinality(LayerToLayerImports(TheGraph, pair)) >= 2
    /\ \E n \in 1..Len(Chains) : Len(Chains[n].chain) >= 2

---------------------------------------------------------------------------
(* C4 *)

\* The chains of imports of the graph that violate the pair: from a module
\* of the lower layer's subtree to a module of the higher layer's subtree,
\* through modules of neither and of no other declared layer, no module
\* twice.
ViolatingChains(g, t) ==
    LET p == Pruned(g, t)
        ends == Subtree(p, t.lower) \cup Subtree(p, t.higher)
    IN  UNION {{c \in ChainsFrom(p, l, n) :
                   /\ c[Len(c)] \in Subtree(p, t.higher)
                   /\ \A i \in 2..(Len(c) - 1) : c[i] \notin ends}
               : l \in Subtree(p, t.lower), n \in 1..Cardinality(p.modules)}

\* C4, as stated: once a pair is analysed, every import on a violating
\* chain is reported by exactly one chain of the pair's data, and no import
\* is reported by two.
C4_EveryViolatingImportReportedOnce ==
    PairDone =>
        /\ \A c \in ViolatingChains(TheGraph, pair) :
              \A e \in ChainImports(c) : Cardinality(ChainsReporting(e)) = 1
        /\ \A e \in TheGraph.imports : Cardinality(ChainsReporting(e)) <= 1

\* C4, amended: once a pair is analysed, no import is reported by two
\* chains of the pair's data, and every violating chain has at least one of
\* its imports reported: a violating chain that shares an import with a
\* chain already reported may go unreported.
C4_NoImportTwiceAndEveryViolationTouched ==
    PairDone =>
        /\ \A e \in TheGraph.imports : Cardinality(ChainsReporting(e)) <= 1
        /\ \A c \in ViolatingChains(TheGraph, pair) :
              \E e \in ChainImports(c) : ChainsReporting(e) # {}

\* A pair has been analysed that has an indirect chain and a violating
\* chain one of whose imports no chain reports.
C4_Witness ==
    /\ PairDone
    /\ \E n \in 1..Len(Chains) : Len(Chains[n].chain) >= 2
    /\ \E c \in ViolatingChains(TheGraph, pair) :
          \E e \in ChainImports(c) : ChainsReporting(e) = {}

---------------------------------------------------------------------------
(* C5 *)

StrictlyIncreasing(names) ==
    \A i, j \in 1..Len(names) : i < j => StrLess(names[i], names[j])

IndirectChains == {n \in 1..Len(Chains) : Len(Chains[n].chain) >= 2}

\* The modules of neither layer of the triple and of no other declared layer.
OutsideModules(g, t) ==
    Pruned(g, t).modules \ (Subtree(g, t.lower) \cup Subtree(g, t.higher))

\* The importers of a chain's first imported module it reports, in order.
FirstImporters(dc) ==
    <<dc.chain[1].importer>> \o [i \in 1..Len(dc.extra_firsts) |-> dc.extra_firsts[i].importer]

\* The modules a chain reports as imported by its last importer, in order.
LastImported(dc) ==
    <<dc.chain[Len(dc.chain)].imported>> \o
        [i \in 1..Len(dc.extra_lasts) |-> dc.extra_lasts[i].imported]

\* The modules of L's subtree that import a module, in the graph the pair
\* is analysed on.
LowerImporters(m1) ==
    {a \in Subtree(TheGraph, pair.lower) : <<a, m1>> \in Pruned(TheGraph, pair).imports}

\* The indirect chains of the pair whose first middle module is m1.
ChainsThrough(m1) == {n \in IndirectChains : Chains[n].chain[1].imported = m1}

\* C5, as stated: once a pair (H, L) is analysed, for every module m1
\* outside the layers that two modules or more of L's subtree import and
\* that leads to H's subtree through modules outside the layers, the pair
\* has exactly one indirect chain through m1, whose first link is the
\* import of m1 by the first of its importers in sorted order and whose
\* extra firsts are the imports of m1 by the others, in sorted order.
C5_EverySharedModuleIsCollapsed ==
    PairDone =>
        \A m1 \in OutsideModules(TheGraph, pair) :
           LET p == Pruned(TheGraph, pair)
               lows == Subtree(p, pair.lower)
           IN  (/\ Cardinality(LowerImporters(m1)) >= 2
                /\ HasPath(Without(p, lows, {}), m1, pair.higher))
               => /\ Cardinality(ChainsThrough(m1)) = 1
                  /\ \A n \in ChainsThrough(m1) :
                        FirstImporters(Chains[n]) = sorted(LowerImporters(m1))

\* C5, amended: once a pair (H, L) is analysed, every indirect chain of its data
\* reports, as its first link and its extra firsts, exactly the imports of
\* its first middle module by the modules of L's subtree, in the sorted
\* order of the importers, and as its last link and its extra lasts exactly
\* the imports by its last middle module of the modules of H's subtree, in
\* sorted order; no two chains have the same first middle module or the
\* same last middle module; and when two modules or more of L's subtree
\* import a module outside the layers that leads to H's subtree, and L's
\* subtree imports no other module outside the layers, the pair has exactly
\* one indirect chain.
C5_Collapsing ==
    PairDone =>
        /\ \A n \in IndirectChains :
              LET dc == Chains[n]
                  m1 == dc.chain[1].imported
                  mk == dc.chain[Len(dc.chain)].importer
              IN  /\ Range(FirstImporters(dc)) =
                        {a \in Subtree(TheGraph, pair.lower) : <<a, m1>> \in TheGraph.imports}
                  /\ StrictlyIncreasing(FirstImporters(dc))
                  /\ \A i \in 1..Len(dc.extra_firsts) : dc.extra_firsts[i].imported = m1
                  /\ Range(LastImported(dc)) =
                        {b \in Subtree(TheGraph, pair.higher) : <<mk, b>> \in TheGraph.imports}
                  /\ StrictlyIncreasing(LastImported(dc))
                  /\ \A i \in 1..Len(dc.extra_lasts) : dc.extra_lasts[i].importer = mk
        /\ \A n, o \in IndirectChains :
              n # o => /\ Chains[n].chain[1].imported # Chains[o].chain[1].imported
                       /\ Chains[n].chain[Len(Chains[n].chain)].importer #
                             Chains[o].chain[Len(Chains[o].chain)].importer
        /\ \A m1 \in OutsideModules(TheGraph, pair) :
              LET p == Pruned(TheGraph, pair)
                  lows == Subtree(p, pair.lower)
              IN  (/\ Cardinality({a \in lows : <<a, m1>> \in p.imports}) >= 2
                   /\ \A e \in p.imports :
                         (e[1] \in lows /\ e[2] \in OutsideModules(TheGraph, pair)) => e[2] = m1
                   /\ HasPath(Without(p, lows, {}), m1, pair.higher))
                  => Cardinality(IndirectChains) = 1

\* A pair has been analysed whose one indirect chain has an extra first and
\* an extra last.
C5_Witness ==
    /\ PairDone
    /\ Cardinality(IndirectChains) = 1
    /\ \E n \in IndirectChains :
          Chains[n].extra_firsts # <<>> /\ Chains[n].extra_lasts # <<>>

---------------------------------------------------------------------------
(* C6 *)

\* C6: no step of building the chain data of a pair (copying and pruning
\* the graph, popping the direct imports, squashing, popping the shortest
\* chains, collapsing) changes the graph _build_layer_chain_data was given,
\* and no step of the indirect pass changes the pruned graph the heads and
\* tails are looked up in.
C6_GivenGraphNeverMutated ==
    [][/\ pc \in {"build", "squash", "segments"} => heap'[GraphRef] = heap[GraphRef]
       /\ pc \in {"squash", "segments"} => heap'[temp_graph] = heap[temp_graph]]_vars

\* A chain has been popped from the squashed copy, and the pruned copy has
\* lost a direct import the given graph still has.
C6_Witness ==
    /\ pc = "segments"
    /\ segments # <<>>
    /\ heap[squashed_graph].imports # squash_module(squash_module(heap[temp_graph], pair.lower), pair.higher).imports
    /\ heap[temp_graph].imports # TheGraph.imports
    /\ heap[temp_graph].modules = TheGraph.modules \ {mid}

---------------------------------------------------------------------------
(* C7 *)

\* C7: when check() has run twice on the same graph and contract, the
\* second result is the first: the same entries in the same order, with the
\* same chains in the same order.
C7_SecondRunIdentical ==
    (pc = "done" /\ run = "second") => ContractCheck = previous

---------------------------------------------------------------------------
(* C8 *)

RECURSIVE Flatten(_)
Flatten(ss) == IF ss = <<>> THEN <<>> ELSE Head(ss) \o Flatten(Tail(ss))

\* The declared containers, or the single container none.
DeclaredContainers ==
    IF self.containers = <<>> THEN <<None>> ELSE self.containers

\* The triples of a container (itself, a higher index i, a lower index
\* j > i) whose two modules are in the graph, by i, then by j.
DeclaredPairsOf(g, container) ==
    Flatten([i \in 1..Len(self.layers) |->
        SelectSeq([j \in 1..Len(self.layers) |->
                      [higher |-> container \o self.layers[i].name,
                       lower |-> container \o self.layers[j].name,
                       container |-> container,
                       ordered |-> i < j]],
                  LAMBDA t : t.ordered /\ t.higher \in g.modules /\ t.lower \in g.modules)])

DeclaredPairs(g) ==
    Flatten([k \in 1..Len(DeclaredContainers) |-> DeclaredPairsOf(g, DeclaredContainers[k])])

\* Where in yielded the pair of an entry of the report is.
YieldOf(entry) ==
    {i \in 1..Len(yielded) :
        yielded[i].higher = entry.higher_layer /\ yielded[i].lower = entry.lower_layer}

\* C8: the triples yielded so far are the first of the declared pairs, in
\* their order (containers in declared order, then the higher index, then
\* the lower); when check() returns, all of them have been yielded; and
\* the entries of invalid_chains are pairs that were yielded, in the order
\* they were yielded in.
C8_PairsInDeclaredOrder ==
    LET expected == DeclaredPairs(TheGraph)
    IN  /\ Len(yielded) <= Len(expected)
        /\ \A n \in 1..Len(yielded) :
              /\ yielded[n].higher = expected[n].higher
              /\ yielded[n].lower = expected[n].lower
              /\ yielded[n].container = expected[n].container
        /\ pc = "done" => Len(yielded) = Len(expected)
        /\ \A a \in 1..Len(invalid_chains) : YieldOf(invalid_chains[a]) # {}
        /\ \A a, b \in 1..Len(invalid_chains) :
              a < b => \A i \in YieldOf(invalid_chains[a]), j \in YieldOf(invalid_chains[b]) : i < j

\* check() has returned after four pairs or more under two containers, one
\* pair skipped for a missing optional layer, with two entries or more in
\* the report.
C8_Witness ==
    /\ pc = "done"
    /\ Len(self.containers) = 2
    /\ Len(yielded) >= 4
    /\ Len(yielded) < 6
    /\ Len(invalid_chains) >= 2

---------------------------------------------------------------------------
(* C9 and C10 *)

\* The ignored imports are removed and the containers and layers have been
\* validated, or validation raised.
Validated == pc \notin {"ignore", "validate"} /\ error # MissingImport

IsValidContainer(container) ==
    \E k \in 1..Len(self.root_packages) :
        \/ container = self.root_packages[k]
        \/ /\ Len(self.root_packages[k]) < Len(container)
           /\ SubSeq(container, 1, Len(self.root_packages[k])) = self.root_packages[k]

InvalidContainers == {k \in 1..Len(self.containers) : ~IsValidContainer(self.containers[k])}

\* The modules of the required layers of a container that the graph lacks.
MissingIn(container) ==
    {container \o self.layers[i].name : i \in {j \in 1..Len(self.layers) :
        /\ ~self.layers[j].is_optional
        /\ (container \o self.layers[j].name) \notin TheGraph.modules}}

MissingRequired == UNION {MissingIn(DeclaredContainers[k]) : k \in 1..Len(DeclaredContainers)}

\* check() stopped before the generator yielded anything.
NoPairAnalysed ==
    /\ yielded = <<>>
    /\ pair = NoPair
    /\ layer_chain_data = NoData
    /\ invalid_chains = <<>>
    /\ heap[temp_graph] = EmptyGraph

\* check() raised an error of the class, naming a missing module.
RaisedMissingLayer(class) ==
    /\ pc = "raised"
    /\ error.exception = class
    /\ error.module \in MissingRequired
    /\ error.root_packages = <<>>
    /\ NoPairAnalysed

\* C9: with valid containers, check() fails with a
\* ConfigurationError naming a missing module, before any pair is analysed,
\* exactly if the module of some required layer is not in the graph; an
\* absent optional layer raises nothing and its pairs are skipped.
C9_MissingLayerIsConfigurationError ==
    (Validated /\ InvalidContainers = {}) =>
        /\ (MissingRequired # {}) <=> RaisedMissingLayer("ConfigurationError")
        /\ (MissingRequired = {}) => pc # "raised"
        /\ \A n \in 1..Len(yielded) :
              yielded[n].higher \in TheGraph.modules /\ yielded[n].lower \in TheGraph.modules

\* check() raised an error of the class naming the container and the
\* root packages.
RaisedInvalidContainer(class, container) ==
    /\ pc = "raised"
    /\ error.exception = class
    /\ error.container = container
    /\ error.root_packages = self.root_packages
    /\ error.module = None
    /\ NoPairAnalysed

\* C10: a container that is a root package or a descendant of
\* one passes the container check, and for a container unrelated to every
\* root package check() fails with a ConfigurationError naming that
\* container and the root packages, no pair being analysed.
C10_InvalidContainerIsConfigurationError ==
    Validated =>
        /\ InvalidContainers = {} => error.root_packages = <<>>
        /\ \A k \in InvalidContainers :
              RaisedInvalidContainer("ConfigurationError", self.containers[k])

---------------------------------------------------------------------------
(* C11 *)

\* C11: once the direct imports of the higher layer's subtree by the lower
\* layer's subtree are popped and both layers are squashed, the squashed
\* graph has no import of the higher layer by the lower one, so every chain
\* the repeated search for a shortest chain extracts has more than two
\* modules and the "Direct chain found" error is never raised; and every
\* segment extracted has at least one head candidate and at least one tail
\* candidate in the pruned graph, so taking the first of each never fails.
C11_NoDirectChainIsExtracted ==
    /\ error # DirectChainError
    /\ error # IndexError
    /\ pc = "segments" =>
          /\ <<pair.lower, pair.higher>> \notin heap[squashed_graph].imports
          /\ \A chain \in find_shortest_chain(heap[squashed_graph], pair.lower, pair.higher) :
                Len(chain) > 2
          /\ \A i \in 1..Len(segments) :
                /\ Len(segments[i]) >= 2
                /\ HeadImports(heap[temp_graph], segments[i], pair.lower) # <<>>
                /\ TailImports(heap[temp_graph], segments[i], pair.higher) # <<>>

\* Direct imports were popped for the pair, one of them by a descendant of
\* the lower layer, and the search has then extracted an indirect chain.
C11_Witness ==
    /\ pc = "segments"
    /\ segments # <<>>
    /\ \E k \in 1..Len(layer_chain_data.chains) :
          is_descendant_of(layer_chain_data.chains[k].chain[1].importer, pair.lower)

=============================================================================
